---- MODULE Spec2Model ----
(***************************************************************************)
(* Model of the dla command line program (src/src/main.rs): scene          *)
(* synthesis from the bounding box of a finished aggregate, and the export *)
(* loop with its three serializers (povray, javascript, csv).              *)
(*                                                                         *)
(* The aggregate (Dla, Bbox, Vec3) lives in the library crate `dla`, which *)
(* main.rs only uses; its operations are modelled from the specification.  *)
(* Floating point numbers are kept as integers in hundredths.              *)
(***************************************************************************)
EXTENDS Integers, Sequences, FiniteSets, TLC

\* ---- bounds ------------------------------------------------------------
\* SpecPov: number of cells of the aggregate
MaxCells == 4
\* SpecCsv: number of cells of the aggregate
CsvCells == 3
\* Spec: the bounding box is the cells' bounding box grown by 0..MaxMargin
MaxMargin == 1
\* Spec: length of the list of requested scene formats (-s options)
MaxFormats == 3
\* capacity of a BufWriter, in written items
BufCap == 8
\* the I/O operations of one serializer call that may fail: 1..MaxFailOp
MaxFailOp == 4

\* ---- Vec3 and Bbox (library crate) --------------------------------------
Vec3(x, y, z) == [x |-> x, y |-> y, z |-> z]

Origin == Vec3(0, 0, 0)

VAdd(a, b) == Vec3(a.x + b.x, a.y + b.y, a.z + b.z)

VSub(a, b) == Vec3(a.x - b.x, a.y - b.y, a.z - b.z)

VScale(a, k) == Vec3(a.x * k, a.y * k, a.z * k)

\* Rust's integer division truncates toward zero
TruncDiv(a, b) == IF a >= 0 THEN a \div b ELSE -((-a) \div b)

norm2(v) == v.x * v.x + v.y * v.y + v.z * v.z

dist2(a, b) == norm2(VSub(a, b))

RECURSIVE ISqrtFrom(_, _)
ISqrtFrom(n, r) == IF (r + 1) * (r + 1) > n THEN r ELSE ISqrtFrom(n, r + 1)

ISqrt(n) == ISqrtFrom(n, 0)

\* direction of v; a zero vector has no direction and gives a zero push
normalized(v) ==
    LET len == ISqrt(norm2(v))
    IN  IF len = 0 THEN Origin
        ELSE Vec3(TruncDiv(v.x, len), TruncDiv(v.y, len), TruncDiv(v.z, len))

center(b) ==
    Vec3(TruncDiv(b.lower.x + b.upper.x, 2),
         TruncDiv(b.lower.y + b.upper.y, 2),
         TruncDiv(b.lower.z + b.upper.z, 2))

dimensions(b) == VSub(b.upper, b.lower)

Min(a, b) == IF a <= b THEN a ELSE b

SetMin(S) == CHOOSE m \in S : \A o \in S : m <= o

SetMax(S) == CHOOSE m \in S : \A o \in S : m >= o

\* the box enclosing the cells, grown by margin on every side
EnclosingBbox(cs, margin) ==
    [lower |-> Vec3(SetMin({c.x : c \in cs}) - margin,
                    SetMin({c.y : c \in cs}) - margin,
                    SetMin({c.z : c \in cs}) - margin),
     upper |-> Vec3(SetMax({c.x : c \in cs}) + margin,
                    SetMax({c.y : c \in cs}) + margin,
                    SetMax({c.z : c \in cs}) + margin)]

\* ---- the aggregates a run can end with -------------------------------
Faces ==
    {Vec3(1, 0, 0), Vec3(-1, 0, 0), Vec3(0, 1, 0), Vec3(0, -1, 0),
     Vec3(0, 0, 1), Vec3(0, 0, -1)}

\* main seeds the aggregate with the origin; every particle added sticks to a
\* face of a cell of the aggregate
RECURSIVE Aggregates(_)
Aggregates(maxCells) ==
    IF maxCells <= 1 THEN {{Origin}}
    ELSE LET smaller == Aggregates(maxCells - 1)
         IN  smaller \cup
             UNION {{cs \cup {VAdd(c, f)} : c \in cs, f \in Faces} : cs \in smaller}

DlaInputs(maxCells, margins) ==
    {[cells |-> cs, bbox |-> EnclosingBbox(cs, m)] :
        cs \in Aggregates(maxCells), m \in margins}

\* ---- SceneFormat ---------------------------------------------------------
SceneFormat == {"Povray", "Js", "Csv"}

Ext(f) == CASE f = "Povray" -> "pov" [] f = "Js" -> "js" [] f = "Csv" -> "csv"

Exts == {"pov", "js", "csv"}

\* the lists of -s options: at least one (structopt's default is povray)
FormatLists == UNION {[1..n -> SceneFormat] : n \in 1..MaxFormats}

Range(s) == {s[i] : i \in DOMAIN s}

\* ---- Scene::new ------------------------------------------------------
away_dist(b) == Min(Min(dimensions(b).x, dimensions(b).y), dimensions(b).z)

\* mutant: the standoff is taken from the far side of the box
CameraPositionFromUpper(b) ==
    Vec3(center(b).x - away_dist(b), center(b).y, b.upper.z - away_dist(b))

CameraPosition(b) ==
    Vec3(center(b).x - away_dist(b), center(b).y, b.lower.z - away_dist(b))

CameraTarget == Vec3(0, 0, 0)

\* the add_light closure: intensity in hundredths
add_light(b, pt, intensity) ==
    [position |-> VAdd(pt, VScale(normalized(VSub(pt, center(b))), away_dist(b))),
     intensity |-> intensity]

Lights(b) ==
    << add_light(b, Vec3(b.lower.x, center(b).y, b.lower.z), 100),
       add_light(b, Vec3(center(b).x, center(b).y,
                         b.lower.z - TruncDiv(away_dist(b), 2)), 20),
       add_light(b, Vec3(b.upper.x, b.lower.y, b.lower.z), 75),
       add_light(b, Vec3(b.lower.x, b.upper.y, b.upper.z), 50),
       add_light(b, Vec3(center(b).x, b.lower.y, center(b).z), 75),
       add_light(b, Vec3(center(b).x, b.upper.y, center(b).z), 50) >>

SceneNew(d) ==
    [camera |-> [position |-> CameraPosition(d.bbox), target |-> CameraTarget],
     lights |-> Lights(d.bbox),
     dla    |-> d]

NoScene == [camera |-> "none"]

\* ---- std::io::BufWriter over a File ------------------------------------
\* which I/O operations of one serializer call fail: operation 1 is
\* File::create, the next ones are the BufWriter's writes to the file, in order
IoChoices ==
    {[k |-> 0, persistent |-> FALSE]} \cup
    {[k |-> k, persistent |-> p] : k \in 1..MaxFailOp, p \in BOOLEAN}

Fails(io, op) == io.k > 0 /\ (op = io.k \/ (io.persistent /\ op > io.k))

NewWriter == [buf |-> <<>>, file |-> <<>>, ops |-> 1, err |-> FALSE, out |-> <<>>]

\* write the buffer to the file; on failure the data stays in the buffer
flush_buf(w, io) ==
    IF w.buf = <<>> THEN w
    ELSE IF Fails(io, w.ops + 1) THEN [w EXCEPT !.ops = @ + 1, !.err = TRUE]
    ELSE [w EXCEPT !.ops = @ + 1, !.file = @ \o w.buf, !.buf = <<>>]

\* writeln!(out, ...)?: a full buffer is flushed first, then the item is buffered
writeln(w, item, io) ==
    LET f == IF Len(w.buf) + 1 > BufCap THEN flush_buf(w, io) ELSE w
    IN  IF f.err THEN f
        ELSE [f EXCEPT !.buf = Append(@, item), !.out = Append(@, item)]

RECURSIVE WriteAll(_, _, _)
WriteAll(w, items, io) ==
    IF items = <<>> \/ w.err THEN w
    ELSE WriteAll(writeln(w, Head(items), io), Tail(items), io)

\* the BufWriter goes out of scope: it flushes and ignores a failure
DropWriter(w, io) == [flush_buf(w, io) EXCEPT !.err = w.err]

\* the frame shared by save_pov_scene, save_js_scene and save_csv_scene:
\* File::create(..)?, the writeln!(..)? of every item, println!, Ok(()),
\* and the drop of the BufWriter on the way out
Serialize(items, panics, io) ==
    IF Fails(io, 1)
    THEN [result |-> "Err", created |-> FALSE, file |-> <<>>, out |-> <<>>,
          printed |-> FALSE]
    ELSE LET w == WriteAll(NewWriter, items, io)
         IN  [result  |-> IF w.err THEN "Err" ELSE IF panics THEN "Panic" ELSE "Ok",
              created |-> TRUE,
              file    |-> DropWriter(w, io).file,
              out     |-> w.out,
              printed |-> ~w.err /\ ~panics]

\* ---- the cells as dla.cells() yields them ---------------------------
RECURSIVE Perms(_)
Perms(S) ==
    IF S = {} THEN {<<>>}
    ELSE UNION {{<<c>> \o p : p \in Perms(S \ {c})} : c \in S}

\* ---- save_pov_scene ----------------------------------------------------
gradients == 3

\* mutant: one bucket per gradient
n_per_gradient == gradients

n == gradients * 2

WithDist(cs, b) == {[cc |-> c, d |-> dist2(center(b), c)] : c \in cs}

\* mutant: the cells are left in the order the aggregate yields them
unsorted(cells) == Perms(cells)

\* dla.cells() collected in the order the aggregate yields them, whichever
\* it is, and sorted by distance: every arrangement in ascending distance
RECURSIVE sort_by_key(_)
sort_by_key(cells) ==
    IF cells = {} THEN {<<>>}
    ELSE LET least == SetMin({c.d : c \in cells})
         IN  UNION {{<<c>> \o s : s \in sort_by_key(cells \ {c})} :
                        c \in {e \in cells : e.d = least}}

Threshold(i, max_d) == ((i + 1) * max_d) \div n

\* cells.by_ref().take_while(p): the items up to the first one that fails p;
\* that one is taken from the iterator too
RECURSIVE take_while(_, _)
take_while(cells, limit) ==
    IF cells = <<>> THEN [taken |-> <<>>, rest |-> <<>>]
    ELSE IF Head(cells).d <= limit
    THEN LET t == take_while(Tail(cells), limit)
         IN  [taken |-> <<Head(cells)>> \o t.taken, rest |-> t.rest]
    ELSE [taken |-> <<>>, rest |-> Tail(cells)]

\* mutant: the bucket index is not divided by gradients
ColorGroupPerBucket(i) == 5 + i

ColorGroup(i) == 5 + (i \div gradients)

Unreachable == <<>>

\* the base colours, in hundredths
BaseColor(g) ==
    CASE g \in 0..2 -> <<27, 30, 2>>
      [] g \in 3..4 -> <<0, 60, 2>>
      [] g = 5      -> <<34, 70, 3>>
      [] g = 6      -> <<85, 84, 0>>
      [] OTHER      -> Unreachable

Sphere(c) == [kind |-> "sphere", p |-> c.cc]

\* one turn of the loop over 0..n: the union, its spheres and its texture
RECURSIVE PovUnions(_, _, _)
PovUnions(cells, i, max_d) ==
    IF i >= n THEN <<>>
    ELSE LET t == take_while(cells, Threshold(i, max_d))
             spheres == [j \in DOMAIN t.taken |-> Sphere(t.taken[j])]
             rgb == BaseColor(ColorGroup(i))
         IN  <<[kind |-> "union"]>> \o spheres \o
             (IF rgb = Unreachable THEN <<[kind |-> "panic"]>>
              ELSE <<[kind |-> "texture", rgb |-> rgb,
                      f |-> <<1 + (i % gradients), gradients>>]>>
                   \o PovUnions(t.rest, i + 1, max_d))

PovHeader(sc) ==
    <<[kind |-> "header", bbox |-> sc.dla.bbox, camera |-> sc.camera]>>

PovLights(sc) ==
    [i \in DOMAIN sc.lights |->
        [kind |-> "light_source", position |-> sc.lights[i].position,
         intensity |-> sc.lights[i].intensity]]

SortedCells(sc) == sort_by_key(WithDist(sc.dla.cells, sc.dla.bbox))

\* everything save_pov_scene passes to writeln!, for the sorted cells
PovItems(sc, cells) ==
    LET max_d == cells[Len(cells)].d
    IN  PovHeader(sc) \o PovLights(sc) \o PovUnions(cells, 0, max_d)

Panics(items) == \E i \in DOMAIN items : items[i].kind = "panic"

BeforePanic(items) == SelectSeq(items, LAMBDA t : t.kind # "panic")

\* ---- save_js_scene -------------------------------------------------------
JsItems(sc, order) ==
    <<[kind |-> "header", bbox |-> sc.dla.bbox, camera |-> sc.camera]>>
    \o [i \in DOMAIN sc.lights |->
          [kind |-> "light", position |-> sc.lights[i].position,
           intensity |-> sc.lights[i].intensity]]
    \o <<[kind |-> "particles"]>>
    \o [i \in DOMAIN order |-> [kind |-> "particle", p |-> order[i]]]
    \o <<[kind |-> "end"]>>

\* ---- save_csv_scene ------------------------------------------------------
DigitChar(d) == <<"0", "1", "2", "3", "4", "5", "6", "7", "8", "9">>[d + 1]

RECURSIVE FmtNat(_)
FmtNat(v) ==
    IF v < 10 THEN <<DigitChar(v)>>
    ELSE FmtNat(v \div 10) \o <<DigitChar(v % 10)>>

\* Display of an i64: the line is kept as its sequence of characters
FmtInt(v) == IF v < 0 THEN <<"-">> \o FmtNat(-v) ELSE FmtNat(v)

CsvLine(c) == FmtInt(c.x) \o <<",">> \o FmtInt(c.y) \o <<",">> \o FmtInt(c.z)

\* mutant: a header row goes first
CsvItemsWithHeader(order) ==
    <<[kind |-> "line", text |-> <<"x", ",", "y", ",", "z">>]>>
    \o [i \in DOMAIN order |-> [kind |-> "line", text |-> CsvLine(order[i])]]

CsvItems(order) ==
    [i \in DOMAIN order |-> [kind |-> "line", text |-> CsvLine(order[i])]]

\* ---- main ----------------------------------------------------------------
VARIABLES
    scene_formats_arg,  \* args.scene_formats
    dla,                \* the aggregate after the particles were added
    pc,                 \* "scene_new", "export" or "exit"
    scene,              \* Scene::new(dla), NoScene before
    scene_formats,      \* what the iteration of the HashSet still yields
    ret,                \* what main returned: "running", "Ok", "Err", "Panic"
    fs,                 \* the artifacts on disk, by extension
    out,                \* per format, what its serializer passed to writeln!
    calls,              \* per format, how often its serializer was called
    stdout,             \* the formats whose status text was printed
    results             \* per format, what its serializer returned

vars == <<scene_formats_arg, dla, pc, scene, scene_formats, ret, fs, out, calls,
          stdout, results>>

NoFile == [exists |-> FALSE, content |-> <<>>]

InitWith(dlas, lists) ==
    /\ scene_formats_arg \in lists
    /\ dla \in dlas
    /\ pc = "scene_new"
    /\ scene = NoScene
    /\ scene_formats = <<>>
    /\ ret = "running"
    /\ fs = [e \in Exts |-> NoFile]
    /\ out = [f \in SceneFormat |-> <<>>]
    /\ calls = [f \in SceneFormat |-> 0]
    /\ stdout = {}
    /\ results = [f \in SceneFormat |-> "none"]

\* no particle was added to the seed (-p 0); any list of formats
Init == InitWith(DlaInputs(1, 0..MaxMargin), FormatLists)

\* aggregates of several cells, grown or tight bounding box
InitScene == InitWith(DlaInputs(MaxCells, 0..MaxMargin), {<<"Povray">>})

\* aggregates of several cells in their tight bounding box, one format
InitPov == InitWith(DlaInputs(MaxCells, {0}), {<<"Povray">>})

InitCsv == InitWith(DlaInputs(CsvCells, {0}), {<<"Csv">>})

\* args.scene_formats.into_iter().collect::<HashSet<_>>(), iterated: every
\* requested format once, in any order
\* mutant: the list is iterated as it was given
VecIter(formats) == {formats}

HashSetIter(formats) == Perms(Range(formats))

\* let scene = Scene::new(dla); let scene_formats = ...
MainSceneNew ==
    /\ pc = "scene_new"
    /\ scene' = SceneNew(dla)
    /\ \E it \in HashSetIter(scene_formats_arg) : scene_formats' = it
    /\ pc' = "export"
    /\ UNCHANGED <<scene_formats_arg, dla, ret, fs, out, calls, stdout, results>>

\* the `?` of the loop body: an error leaves main, Ok goes on with the loop
\* mutant: the result of the call is dropped
AfterCallIgnored(result) == "export"

AfterCall(result) == IF result = "Ok" THEN "export" ELSE "exit"

\* `for r in scene_formats` yields f
Yields(f) == pc = "export" /\ scene_formats # <<>> /\ Head(scene_formats) = f

\* one turn of the loop for format f, whose serializer writes items
Export(f, items, panics, io) ==
    \E r \in {Serialize(items, panics, io)} :
        /\ scene_formats' = Tail(scene_formats)
        /\ fs' = IF r.created
                 THEN [fs EXCEPT ![Ext(f)] = [exists |-> TRUE, content |-> r.file]]
                 ELSE fs
        /\ out' = [out EXCEPT ![f] = r.out]
        /\ calls' = [calls EXCEPT ![f] = @ + 1]
        /\ stdout' = IF r.printed THEN stdout \cup {f} ELSE stdout
        /\ results' = [results EXCEPT ![f] = r.result]
        /\ pc' = AfterCall(r.result)
        /\ ret' = IF AfterCall(r.result) = "exit" THEN r.result ELSE ret
        /\ UNCHANGED <<scene_formats_arg, dla, scene>>

SavePov ==
    /\ Yields("Povray")
    /\ \E cells \in SortedCells(scene), io \in IoChoices :
        \E items \in {PovItems(scene, cells)} :
            Export("Povray", BeforePanic(items), Panics(items), io)

SaveJs ==
    /\ Yields("Js")
    /\ \E order \in Perms(scene.dla.cells), io \in IoChoices :
        Export("Js", JsItems(scene, order), FALSE, io)

SaveCsv ==
    /\ Yields("Csv")
    /\ \E order \in Perms(scene.dla.cells), io \in IoChoices :
        Export("Csv", CsvItems(order), FALSE, io)

\* the loop is over: Ok(())
MainReturn ==
    /\ pc = "export"
    /\ scene_formats = <<>>
    /\ pc' = "exit"
    /\ ret' = "Ok"
    /\ UNCHANGED <<scene_formats_arg, dla, scene, scene_formats, fs, out, calls,
                   stdout, results>>

Next == MainSceneNew \/ SavePov \/ SaveJs \/ SaveCsv \/ MainReturn

NextPov == MainSceneNew \/ SavePov \/ MainReturn

NextCsv == MainSceneNew \/ SaveCsv \/ MainReturn

NextScene == MainSceneNew

Spec == Init /\ [][Next]_vars

SpecScene == InitScene /\ [][NextScene]_vars

SpecPov == InitPov /\ [][NextPov]_vars

SpecCsv == InitCsv /\ [][NextCsv]_vars

\* ---- what the claims read off a state ------------------------------------
CountKind(items, kind) == Cardinality({j \in DOMAIN items : items[j].kind = kind})

\* the index i of the union block the item at position j lies in
UnionOf(items, j) == Cardinality({k \in 1..j : items[k].kind = "union"}) - 1

SpherePositions(items) == {j \in DOMAIN items : items[j].kind = "sphere"}

\* the union blocks that hold at least one sphere
FilledUnions(items) == {UnionOf(items, j) : j \in SpherePositions(items)}

CenterDist(c) == dist2(center(dla.bbox), c)

MaxDist == SetMax({CenterDist(c) : c \in dla.cells})

Degenerate(b) ==
    dimensions(b).x = 0 \/ dimensions(b).y = 0 \/ dimensions(b).z = 0

Failed(res) == {f \in SceneFormat : res[f] = "Err"}

\* reading a csv line back: the fields between the commas, as integers
RECURSIVE Fields(_)
Fields(text) ==
    IF \A j \in DOMAIN text : text[j] # ","
    THEN <<text>>
    ELSE LET j == CHOOSE k \in DOMAIN text :
                      text[k] = "," /\ \A m \in 1..(k - 1) : text[m] # ","
         IN  <<SubSeq(text, 1, j - 1)>> \o Fields(SubSeq(text, j + 1, Len(text)))

IsDigit(ch) == \E v \in 0..9 : DigitChar(v) = ch

IsNatText(text) == text # <<>> /\ \A j \in DOMAIN text : IsDigit(text[j])

IsIntText(text) ==
    IsNatText(text) \/ (text # <<>> /\ text[1] = "-" /\ IsNatText(Tail(text)))

RECURSIVE ParseNat(_)
ParseNat(text) ==
    IF text = <<>> THEN 0
    ELSE 10 * ParseNat(SubSeq(text, 1, Len(text) - 1))
         + (CHOOSE v \in 0..9 : DigitChar(v) = text[Len(text)])

ParseInt(text) == IF text[1] = "-" THEN -ParseNat(Tail(text)) ELSE ParseNat(text)

IsCellLine(text) ==
    Len(Fields(text)) = 3 /\ \A j \in 1..3 : IsIntText(Fields(text)[j])

ParseCell(text) ==
    Vec3(ParseInt(Fields(text)[1]), ParseInt(Fields(text)[2]),
         ParseInt(Fields(text)[3]))

\* ---- the claims ----------------------------------------------------------

\* C1: after a successful save_pov_scene every cell of the aggregate is written
\* as a sphere in exactly one of the six buckets: the spheres written are the
\* cells, and there are as many spheres as cells.
C1_BucketsPartitionCells ==
    results["Povray"] = "Ok" =>
        LET items == out["Povray"]
        IN  /\ {items[j].p : j \in SpherePositions(items)} = dla.cells
            /\ Cardinality(SpherePositions(items)) = Cardinality(dla.cells)

\* C2: after a successful save_csv_scene the lines written are `x,y,z` lines
\* and nothing else, one per cell, and read back they are exactly the cells of
\* the aggregate; for the single cell (0,0,0) the output is the line `0,0,0`.
C2_CsvLinesAreTheCells ==
    results["Csv"] = "Ok" =>
        LET lines == out["Csv"]
        IN  /\ \A j \in DOMAIN lines :
                   lines[j].kind = "line" /\ IsCellLine(lines[j].text)
            /\ Len(lines) = Cardinality(dla.cells)
            /\ {ParseCell(lines[j].text) : j \in DOMAIN lines} = dla.cells
            /\ (dla.cells = {Origin} =>
                   lines = <<[kind |-> "line", text |-> <<"0", ",", "0", ",", "0">>]>>)

C2_Witness ==
    /\ results["Csv"] = "Ok"
    /\ Cardinality(dla.cells) >= 2
    /\ \E c \in dla.cells : c.x < 0 \/ c.y < 0 \/ c.z < 0

C4_OkOnlyAfterFlush ==
    \A f \in SceneFormat :
        (results[f] = "Ok" \/ f \in stdout) =>
            fs[Ext(f)].exists /\ fs[Ext(f)].content = out[f]

\* C5: from a degenerate bounding box no scene is built and no artifact is
\* created.
C5_DegenerateBboxRejected ==
    Degenerate(dla.bbox) =>
        scene = NoScene /\ \A e \in Exts : ~fs[e].exists

\* C6: the failure of a serializer ends the run with that error; afterwards no
\* serializer is called and no artifact changes, and the artifact of a format
\* that completed is never touched again.
C6_FirstFailureEndsTheRun ==
    [][/\ Failed(results') # {} => ret' = "Err" /\ pc' = "exit"
       /\ Failed(results) # {} => calls' = calls /\ fs' = fs /\ results' = results
       /\ \A f \in SceneFormat : results[f] = "Ok" => fs'[Ext(f)] = fs[Ext(f)]
      ]_vars

C6_Witness ==
    /\ Failed(results) # {}
    /\ \E f \in SceneFormat : results[f] = "Ok" /\ fs[Ext(f)].exists
    /\ scene_formats # <<>>

\* C7: no serializer is called twice in a run, and when main returns Ok every
\* requested format's serializer was called exactly once.
C7_EachFormatOnce ==
    /\ \A f \in SceneFormat : calls[f] <= 1
    /\ ret = "Ok" =>
           \A f \in SceneFormat :
               calls[f] = IF f \in Range(scene_formats_arg) THEN 1 ELSE 0

C7_Witness ==
    /\ ret = "Ok"
    /\ Len(scene_formats_arg) > Cardinality(Range(scene_formats_arg))

\* C8: for a bounding box with all three dimensions > 0 the camera looks at
\* the origin from (center.x - away, center.y, lower.z - away), away the least
\* dimension, which is in front of the box: its z is less than lower.z.
C8_CameraInFront ==
    (scene # NoScene /\ dimensions(dla.bbox).x > 0 /\ dimensions(dla.bbox).y > 0
                     /\ dimensions(dla.bbox).z > 0) =>
        LET b == dla.bbox
            away == SetMin({b.upper.x - b.lower.x, b.upper.y - b.lower.y,
                            b.upper.z - b.lower.z})
        IN  /\ scene.camera.target = Vec3(0, 0, 0)
            /\ scene.camera.position.z < b.lower.z
            /\ scene.camera.position
                 = Vec3(center(b).x - away, center(b).y, b.lower.z - away)

C8_Witness ==
    /\ scene # NoScene
    /\ dimensions(dla.bbox).x > 1 /\ dimensions(dla.bbox).y > 0
    /\ dimensions(dla.bbox).z > 0
    /\ dla.bbox.lower.z < 0

\* C9: the colour group of every bucket index 0..5 has a base colour, and
\* save_pov_scene never runs into unreachable!().
C9_ColorGroupCovered ==
    /\ ret # "Panic"
    /\ results["Povray"] # "Panic"
    /\ \A i \in 0..5 : BaseColor(ColorGroup(i)) # Unreachable

C9_Witness ==
    results["Povray"] = "Ok" /\ CountKind(out["Povray"], "texture") = 6

\* C10: a sphere written in the i-th union belongs to a cell at squared
\* distance d from the centre with d <= (i+1)*max_d/6 and d > j*max_d/6 for
\* every j in 1..i, and no cell is written as a sphere twice.
C10_SpheresInFirstFitShell ==
    LET items == out["Povray"]
    IN  /\ \A j \in SpherePositions(items) :
               LET i == UnionOf(items, j)
                   d == CenterDist(items[j].p)
               IN  /\ items[j].p \in dla.cells
                   /\ i \in 0..5
                   /\ d <= ((i + 1) * MaxDist) \div 6
                   /\ \A k \in 1..i : d > (k * MaxDist) \div 6
        /\ \A j, k \in SpherePositions(items) : items[j].p = items[k].p => j = k

C10_Witness ==
    /\ results["Povray"] = "Ok"
    /\ \E j \in SpherePositions(out["Povray"]) : UnionOf(out["Povray"], j) >= 1
    /\ \E j \in SpherePositions(out["Povray"]) : UnionOf(out["Povray"], j) = 0

====
